---- MODULE Spec2Model ----
\* Model of scripts/run_selected_odds.py (OddsHarvester): reading the two input
\* CSV files, resolving each match to a validated OddsPortal link through the
\* single shared browser page, and writing out/match_links.csv; and of
\* scripts/read_inputs.py, which lists the match texts of the same files.
\*
\* Spec and SpecDeep leave the site free to answer anything at every
\* navigation; SpecInput holds the unusual input rows; SpecFixed fixes at the
\* start what every URL answers; SpecFair adds the fairness under which the
\* run ends; SpecSlug applies _slug to texts on their own.
\*
\* Text is modelled as sequences of one-character strings; a URL or href as a
\* sequence of tokens ("/" and path segments), so that substring, split and
\* count are computed the way the Python code computes them.
EXTENDS Integers, Sequences, FiniteSets, TLC

\* ---------------------------------------------------------------- bounds

\* Total number of CSV rows over both input files.
MaxRows == 2

\* Total number of CSV rows when the site shows the long search page.
MaxDeepRows == 1

\* Total number of CSV rows when the files hold the unusual rows.
MaxInputRows == 2

\* Length of the texts handed to _slug on their own.
MaxTextLen == 5

\* Total number of CSV rows when the answers of the site are held fixed.
MaxFixedRows == 2

\* ------------------------------------------------------- text primitives

LowerLetters == {"a","b","c","d","e","f","g","h","i","j","k","l","m",
                 "n","o","p","q","r","s","t","u","v","w","x","y","z"}
Digits == {"0","1","2","3","4","5","6","7","8","9"}
Whitespace == {" ", "\t"}

\* str.lower() on one character (the upper-case letters the inputs use).
LowerChar(c) ==
    CASE c = "A" -> "a" [] c = "B" -> "b" [] c = "C" -> "c" [] c = "D" -> "d"
      [] c = "F" -> "f" [] c = "I" -> "i" [] c = "M" -> "m" [] c = "O" -> "o" [] c = "V" -> "v"
      [] c = "S" -> "s" [] c = "L" -> "l" [] c = "X" -> "x"
      [] OTHER -> c

Lower(s) == [n \in 1..Len(s) |-> LowerChar(s[n])]

RECURSIVE LStrip(_)
LStrip(s) == IF s # <<>> /\ Head(s) \in Whitespace THEN LStrip(Tail(s)) ELSE s

RECURSIVE RStrip(_)
RStrip(s) ==
    IF s # <<>> /\ s[Len(s)] \in Whitespace
    THEN RStrip(SubSeq(s, 1, Len(s) - 1)) ELSE s

\* str.strip()
Strip(s) == RStrip(LStrip(s))

\* sub in s, at position p (1-based)
MatchAt(s, sub, p) ==
    /\ p >= 1
    /\ p + Len(sub) - 1 <= Len(s)
    /\ \A n \in 1..Len(sub) : s[p + n - 1] = sub[n]

\* Python's `sub in s`
Contains(s, sub) == \E p \in 1..(Len(s) + 1) : MatchAt(s, sub, p)

\* str.find, 1-based; 0 when absent
Find(s, sub) ==
    IF Contains(s, sub)
    THEN CHOOSE p \in 1..(Len(s) + 1) :
            /\ MatchAt(s, sub, p)
            /\ \A q \in 1..(p - 1) : ~MatchAt(s, sub, q)
    ELSE 0

\* str.count(sub) for non-overlapping occurrences, scanning left to right
RECURSIVE Count(_, _)
Count(s, sub) ==
    LET p == Find(s, sub)
    IN IF p = 0 \/ sub = <<>> THEN 0
       ELSE 1 + Count(SubSeq(s, p + Len(sub), Len(s)), sub)

\* s.replace("&", "and")
RECURSIVE ReplaceAmp(_)
ReplaceAmp(s) ==
    IF s = <<>> THEN <<>>
    ELSE IF Head(s) = "&" THEN <<"a", "n", "d">> \o ReplaceAmp(Tail(s))
    ELSE <<Head(s)>> \o ReplaceAmp(Tail(s))

\* re.sub(r"\s+", " ", s)
RECURSIVE CollapseWs(_)
CollapseWs(s) ==
    IF s = <<>> THEN <<>>
    ELSE IF Head(s) \in Whitespace
         THEN <<" ">> \o CollapseWs(LStrip(s))
         ELSE <<Head(s)>> \o CollapseWs(Tail(s))

\* re.sub(r"[^a-z0-9 ]+", "", s)
KeepAlnumSpace(s) ==
    SelectSeq(s, LAMBDA c : c \in LowerLetters \cup Digits \cup {" "})

_slug(s) == Strip(KeepAlnumSpace(CollapseWs(ReplaceAmp(Strip(Lower(s))))))

Sep == <<" ", "v", "s", " ">>

\* str.split(sep, 1): the part before and the part after the first sep
SplitOnce(s, sep) ==
    LET p == Find(s, sep)
    IN <<SubSeq(s, 1, p - 1), SubSeq(s, p + Len(sep), Len(s))>>

_split_match(match) ==
    IF Contains(match, Sep)
    THEN LET ab == SplitOnce(match, Sep) IN <<Strip(ab[1]), Strip(ab[2])>>
    ELSE IF Contains(match, <<"v">>)
         THEN LET parts == SplitOnce(match, <<"v">>)
              IN <<Strip(parts[1]), Strip(parts[2])>>
         ELSE <<Strip(match), <<>>>>

\* ------------------------------------------------------------ CSV input

\* A CSV row is a sequence of column texts; a file is [exists, rows], where
\* exists is path.exists() and rows the rows csv.reader yields.
NoFile == [exists |-> FALSE, rows |-> <<>>]

DigitVal(c) ==
    CASE c = "0" -> 0 [] c = "1" -> 1 [] c = "2" -> 2 [] c = "3" -> 3
      [] c = "4" -> 4 [] c = "5" -> 5 [] c = "6" -> 6 [] c = "7" -> 7
      [] c = "8" -> 8 [] c = "9" -> 9 [] OTHER -> 0

RECURSIVE DigitsVal(_)
DigitsVal(s) ==
    IF s = <<>> THEN 0
    ELSE 10 * DigitsVal(SubSeq(s, 1, Len(s) - 1)) + DigitVal(s[Len(s)])

AllDigits(s) == s # <<>> /\ \A n \in 1..Len(s) : s[n] \in Digits

\* int(text): [ok |-> FALSE] stands for ValueError
ParseInt(text) ==
    LET s == Strip(text)
    IN IF s # <<>> /\ Head(s) \in {"-", "+"}
       THEN IF AllDigits(Tail(s))
            THEN [ok |-> TRUE,
                  val |-> IF Head(s) = "-" THEN 0 - DigitsVal(Tail(s))
                          ELSE DigitsVal(Tail(s))]
            ELSE [ok |-> FALSE, val |-> 0]
       ELSE IF AllDigits(s) THEN [ok |-> TRUE, val |-> DigitsVal(s)]
            ELSE [ok |-> FALSE, val |-> 0]

\* `if idx and match:` (lines 68 and 82)
AcceptRowNoMatchCheck(idx, match) == idx # 0
AcceptRow(idx, match) == idx # 0 /\ match # <<>>

\* One row of the header-less branch (lines 73-83): the tuple appended, or
\* <<>> when the row is skipped.
ReaderRow(parts) ==
    IF Len(parts) < 2 THEN <<>>
    ELSE LET n == ParseInt(parts[1])
             match == Strip(parts[2])
             league == IF Len(parts) >= 3 THEN Strip(parts[3]) ELSE <<>>
         IN IF ~n.ok THEN <<>>
            ELSE IF AcceptRow(n.val, match)
                 THEN <<[idx |-> n.val, match |-> match, league |-> league]>>
                 ELSE <<>>

NoneText == <<"N", "o", "n", "e">>
IdxName == <<"i", "d", "x">>
MatchName == <<"m", "a", "t", "c", "h">>
LeagueName == <<"l", "e", "a", "g", "u", "e">>

\* csv.DictReader's line.get(name): the column under the header field `name`
\* (the last one of that name), `dflt` without such a field, `none` when the
\* row is shorter than the header.
DictGet(header, line, name, dflt, none) ==
    LET at == {n \in 1..Len(header) : header[n] = name}
    IN IF at = {} THEN dflt
       ELSE LET n == CHOOSE m \in at : \A q \in at : q <= m
            IN IF n > Len(line) THEN none ELSE line[n]

\* One row of the DictReader branch (lines 61-69); csv.DictReader skips
\* rows without any column.
DictRow(header, line) ==
    IF line = <<>> THEN <<>>
    ELSE LET raw == Strip(DictGet(header, line, IdxName, <<>>, NoneText))
             n == ParseInt(IF raw = <<>> THEN <<"0">> ELSE raw)
             idx == IF n.ok THEN n.val ELSE 0
             match == Strip(DictGet(header, line, MatchName, <<>>, <<>>))
             league == Strip(DictGet(header, line, LeagueName, <<>>, <<>>))
         IN IF AcceptRow(idx, match)
            THEN <<[idx |-> idx, match |-> match, league |-> league]>>
            ELSE <<>>

\* "match" in sample.splitlines()[0].lower()  (line 58); the word holds no
\* comma, so it lies within one column of the first row.
HasHeader(rows) ==
    \E n \in 1..Len(rows[1]) : Contains(Lower(rows[1][n]), MatchName)

RECURSIVE Flatten(_)
Flatten(ss) == IF ss = <<>> THEN <<>> ELSE Head(ss) \o Flatten(Tail(ss))

\* An existing file without a first line makes line 58 raise IndexError.
ReaderCrashes(file) == file.exists /\ file.rows = <<>>

_read_input_csv(file) ==
    LET rows == file.rows
    IN IF ~file.exists \/ rows = <<>> THEN <<>>
       ELSE IF HasHeader(rows)
            THEN Flatten([n \in 1..(Len(rows) - 1) |->
                             DictRow(rows[1], rows[n + 1])])
            ELSE Flatten([n \in 1..Len(rows) |-> ReaderRow(rows[n])])

\* ------------------------------------------------------ tasks, statuses

Bucket15 == "over15"
Bucket05 == "over05_1h"

\* MatchTask(bucket, idx, match, league) with its two defaults
MatchTask(bucket, row) ==
    [bucket |-> bucket, idx |-> row.idx, match |-> row.match,
     league |-> row.league, oddsportal_link |-> <<>>, status |-> "pending"]

\* lines 205-209
BuildTasksSwapped(rows15, rows05) ==
    [n \in 1..Len(rows05) |-> MatchTask(Bucket05, rows05[n])]
    \o [n \in 1..Len(rows15) |-> MatchTask(Bucket15, rows15[n])]
BuildTasks(rows15, rows05) ==
    [n \in 1..Len(rows15) |-> MatchTask(Bucket15, rows15[n])]
    \o [n \in 1..Len(rows05) |-> MatchTask(Bucket05, rows05[n])]

\* lines 225-226
OnOkStatusOnly(t, link) == [t EXCEPT !.status = "ok"]
OnOk(t, link) == [t EXCEPT !.oddsportal_link = link, !.status = "ok"]

\* line 229
OnMiss(t) == [t EXCEPT !.status = "link-miss"]

\* line 237
OnTimeoutOwnStatus(t) == [t EXCEPT !.status = "timeout"]
OnTimeout(t) == [t EXCEPT !.status = "link-miss"]

\* line 244
OnErrorOwnStatus(t) == [t EXCEPT !.status = "error"]
OnErrorKeepPending(t) == t
OnError(t) == [t EXCEPT !.status = "link-miss"]

\* page.screenshot(path=DEBUG_DIR / f"{ts}_{tag}-{bucket}-{idx}.png") inside
\* try/except Exception: pass (lines 232-235, 239-242, 246-249): the request
\* as recorded, whether the call then returns or raises. `task` is the
\* position of the requesting task in the task list.
ScreenshotDropped(caps, tag, j, t) == caps
Screenshot(caps, tag, j, t) ==
    Append(caps, [tag |-> tag, bucket |-> t.bucket, idx |-> t.idx,
                  task |-> j])

TagMiss == "search-miss"
TagTimeout == "timeout"
TagError == "error"

\* lines 257-259
HeaderRow == <<"bucket", "idx", "match", "league", "oddsportal_link", "status">>
OutputRow(t) ==
    <<t.bucket, t.idx, t.match, t.league, t.oddsportal_link, t.status>>

\* ---------------------------------------------------------- OddsPortal

ODDSPORTAL_BASE == <<"https://www.oddsportal.com">>

Min(a, b) == IF a < b THEN a ELSE b

\* re.sub(r"\s+", "+", query)
RECURSIVE PlusWs(_)
PlusWs(s) ==
    IF s = <<>> THEN <<>>
    ELSE IF Head(s) \in Whitespace THEN <<"+">> \o PlusWs(LStrip(s))
         ELSE <<Head(s)>> \o PlusWs(Tail(s))

\* lines 147-148
SearchUrl(home, away) ==
    ODDSPORTAL_BASE \o <<"/", "search", "/", "?q=">>
        \o PlusWs(Strip(home \o <<" ">> \o away))

\* page.locator("a[href^='/']").all()  (line 157)
Locate(anchors) ==
    SelectSeq(anchors, LAMBDA a : a.href # <<>> /\ Head(a.href) = "/")

\* lines 162-168: whether an href read from an anchor becomes a candidate
IsCandidateNoSearchSkip(href) ==
    /\ href # <<>>
    /\ Contains(href, <<"/", "football", "/">>)
    /\ Count(href, <<"/">>) >= 4
IsCandidateAnySport(href) ==
    /\ href # <<>>
    /\ ~MatchAt(href, <<"/", "search", "/">>, 1)
    /\ Count(href, <<"/">>) >= 4
IsCandidate(href) ==
    /\ href # <<>>
    /\ ~MatchAt(href, <<"/", "search", "/">>, 1)
    /\ Contains(href, <<"/", "football", "/">>)
    /\ Count(href, <<"/">>) >= 4

InSeq(x, s) == \E n \in 1..Len(s) : s[n] = x

RECURSIVE CollectHrefsNoDedup(_, _, _, _)
CollectHrefsNoDedup(anchors, failed, n, acc) ==
    IF n > Len(anchors) THEN acc
    ELSE IF n \notin failed /\ IsCandidate(anchors[n].href)
         THEN CollectHrefsNoDedup(anchors, failed, n + 1,
                                  Append(acc, ODDSPORTAL_BASE \o anchors[n].href))
         ELSE CollectHrefsNoDedup(anchors, failed, n + 1, acc)

\* lines 158-173; `failed` holds the positions whose get_attribute raised
RECURSIVE CollectHrefs(_, _, _, _)
CollectHrefs(anchors, failed, n, acc) ==
    IF n > Len(anchors) THEN acc
    ELSE LET full == ODDSPORTAL_BASE \o anchors[n].href
         IN IF n \notin failed /\ IsCandidate(anchors[n].href)
                /\ ~InSeq(full, acc)
            THEN CollectHrefs(anchors, failed, n + 1, Append(acc, full))
            ELSE CollectHrefs(anchors, failed, n + 1, acc)

\* hrefs[:8]  (line 183)
MaxAttempts == 8
AttemptsAll(hrefs) == hrefs
Attempts(hrefs) == SubSeq(hrefs, 1, Min(MaxAttempts, Len(hrefs)))

\* line 192
ValidatesEmptyNames(home_s, away_s, t) ==
    /\ Contains(t, home_s)
    /\ Contains(t, away_s)
ValidatesHomeOnly(home_s, away_s, t) ==
    home_s # <<>> /\ Contains(t, home_s)
Validates(home_s, away_s, t) ==
    /\ home_s # <<>>
    /\ away_s # <<>>
    /\ Contains(t, home_s)
    /\ Contains(t, away_s)

\* ------------------------------------------------- inputs and the site

RowAB      == << <<"1">>, <<"a", " ", "v", "s", " ", "b">>, <<"L">> >>
RowNoise   == << <<"F", "i", "l", "t", "r", "o", ":">>,
                 <<"O", "v", "e", "r", " ", "1", ".", "5">>, <<>> >>
RowTwoSep  == << <<"3">>,
                 <<"a", " ", "v", "s", " ", "b", " ", "v", "s", " ", "c">>,
                 <<>> >>
RowNoSep   == << <<"4">>, <<"a">>, <<"L">> >>
RowBlank   == << <<"5">>, <<" ">>, <<"L">> >>
RowHeader  == << IdxName, MatchName, LeagueName >>

RowPool == {RowAB, RowNoise, RowTwoSep, RowNoSep, RowBlank, RowHeader}

BoundedSeq(S, n) == UNION {[1..m -> S] : m \in 0..n}

FilePool ==
    {NoFile} \cup {[exists |-> TRUE, rows |-> r] : r \in BoundedSeq(RowPool, MaxRows)}

InputFiles ==
    {[over15 |-> f, over05_1h |-> g] : f \in FilePool, g \in FilePool}

\* Rows with an index that is not positive, and a capitalised header
RowNeg  == << <<"-", "2">>, <<"a", " ", "v", "s", " ", "b">>, <<"L">> >>
RowZero == << <<"0">>, <<"a", " ", "v", "s", " ", "b">>, <<"L">> >>
RowCaps == << <<"I", "d", "x">>, <<"M", "a", "t", "c", "h">>,
              <<"L", "e", "a", "g", "u", "e">> >>

InputRowPool == {RowAB, RowNeg, RowZero, RowNoise, RowHeader, RowCaps}

InputFilePool ==
    {NoFile} \cup {[exists |-> TRUE, rows |-> r] :
                      r \in BoundedSeq(InputRowPool, MaxInputRows)}

InputInputFiles ==
    {[over15 |-> f, over05_1h |-> g] : f \in InputFilePool, g \in InputFilePool}

\* hrefs, as tokens
MatchSegs == <<"m1", "m2", "m3", "m4", "m5", "m6", "m7", "m8", "m9">>
HrefMatch(n) == <<"/", "football", "/", "e", "/", MatchSegs[n], "/">>
HrefM1      == HrefMatch(1)
HrefM2      == HrefMatch(2)
HrefSearch  == <<"/", "search", "/", "football", "/", "e", "/">>
HrefShort   == <<"/", "football", "/", "e", "/">>
HrefResults == <<"/", "football", "/", "e", "/", "results", "/">>
HrefTennis  == <<"/", "tennis", "/", "e", "/", "m1", "/">>
HrefAbs     == ODDSPORTAL_BASE \o HrefM1

TextAB   == <<"A", " ", "-", " ", "b">>
TextA    == <<"a">>
TextCD   == <<"c", "&", "d">>
TextNone == <<"x">>

Anchor(href, text) == [href |-> href, text |-> text]

\* What the search page may show: lists of anchors (href, visible text)
SearchResults ==
    { <<>>,
      << Anchor(HrefSearch, TextNone), Anchor(HrefM1, TextAB),
         Anchor(HrefAbs, TextAB), Anchor(HrefM1, TextAB),
         Anchor(HrefM2, TextNone) >>,
      << Anchor(HrefShort, TextAB), Anchor(HrefTennis, TextAB),
         Anchor(HrefAbs, TextAB) >>,
      << Anchor(HrefResults, TextNone), Anchor(HrefM2, TextAB) >>,
      << Anchor(HrefAbs, TextAB), Anchor(HrefM2, TextNone),
         Anchor(HrefM1, TextAB) >> }

\* A site whose search page lists more candidates than line 183 tries
DeepPage ==
    << Anchor(HrefSearch, TextAB) >>
       \o [n \in 1..Len(MatchSegs) |-> Anchor(HrefMatch(n), TextNone)]

DeepResults == { <<>>, DeepPage }

DeepFilePool ==
    {NoFile} \cup {[exists |-> TRUE, rows |-> r] :
                      r \in BoundedSeq({RowAB}, MaxDeepRows)}

DeepInputFiles ==
    {[over15 |-> f, over05_1h |-> g] : f \in DeepFilePool, g \in DeepFilePool}

\* A site with one match page
PlainResults == { <<>>, << Anchor(HrefM1, TextAB) >> }

\* What page.inner_text("body") of a candidate page may return
Bodies == {TextAB, TextA, TextCD, TextNone}

\* ------------------------------------------------------------- state

VARIABLES
    files,      \* the two input files
    results,    \* the anchor lists the site's search page may show
    tasks,      \* main's task list
    i,          \* position of the loop `for tsk in tasks`
    pc,         \* where main is
    home, away, \* _split_match(tsk.match) of the current task
    page,       \* the URL last handed to page.goto on the shared page
    anchors,    \* the anchors of the search page as loaded
    hrefs,      \* the candidate list of the current task
    k,          \* position of the loop `for cand in hrefs[:8]`
    captures,   \* the screenshots requested, in order
    output,     \* the rows written to out/match_links.csv
    cur,        \* history of the task in progress or just finished
    web,        \* what the site answers per URL, where that is held fixed
    listed,     \* what scripts/read_inputs.py extracted from the two files
    slugged     \* a text followed by its successive _slug images

vars == <<files, results, tasks, i, pc, home, away, page, anchors, hrefs, k,
          captures, output, cur, web, listed, slugged>>

\* navs: the URLs handed to page.goto for this task, in order; fault: the
\* exception that left _search_and_pick_match_link; swallowed: an exception
\* was caught inside it; rejected: positions of hrefs that failed validation;
\* body: the text read from the returned candidate; shot: "saved" or
\* "failed" as page.screenshot returned or raised, "none" without a call;
\* done: the task has its final status.
NoCur == [navs |-> <<>>, fault |-> "none", swallowed |-> FALSE,
          rejected |-> {}, body |-> <<>>, shot |-> "none", done |-> FALSE]

ShotOutcomes == {"saved", "failed"}

\* The site is not held fixed: every navigation may answer anything, and
\* reading the href of any anchor may fail.
FreeWeb == [fixed |-> FALSE, search |-> <<>>, body |-> <<>>,
            flaky |-> 1..Len(DeepPage)]

\* What a navigation to url may answer, and what reading the page may do
PagesAt(url) ==
    IF web.fixed
    THEN IF web.search[url].kind \in {"page", "gone"}
         THEN {web.search[url].anchors} ELSE {}
    ELSE results
SearchRaises(kind, url) == web.fixed => web.search[url].kind = kind
LocatorRaises(url) == web.fixed => web.search[url].kind = "gone"
FailedAt(url, n) ==
    IF web.fixed
    THEN IF web.search[url].kind = "page" THEN {web.search[url].failed} ELSE {}
    ELSE SUBSET (web.flaky \cap 1..n)
BodiesAt(url) ==
    IF web.fixed
    THEN IF web.body[url].kind = "text" THEN {web.body[url].text} ELSE {}
    ELSE Bodies
BodyRaises(url) == web.fixed => web.body[url].kind = "raise"

\* line 156: hrefs = []
NewListStale(old) == old
NewList(old) == <<>>

\* scripts/read_inputs.py has not run
NotListed == [ran |-> FALSE, over15 |-> <<>>, over05_1h |-> <<>>]

Start ==
    /\ tasks = <<>>
    /\ i = 1
    /\ pc = "start"
    /\ home = <<>>
    /\ away = <<>>
    /\ page = <<"about:blank">>
    /\ anchors = <<>>
    /\ hrefs = <<>>
    /\ k = 1
    /\ captures = <<>>
    /\ output = <<>>
    /\ cur = NoCur

Init ==
    /\ files \in InputFiles
    /\ Len(files.over15.rows) + Len(files.over05_1h.rows) <= MaxRows
    /\ results = SearchResults
    /\ web = FreeWeb
    /\ listed = NotListed
    /\ slugged = <<>>
    /\ Start

InitDeep ==
    /\ files \in DeepInputFiles
    /\ Len(files.over15.rows) + Len(files.over05_1h.rows) <= MaxDeepRows
    /\ results = DeepResults
    /\ web = FreeWeb
    /\ listed = NotListed
    /\ slugged = <<>>
    /\ Start

InitInput ==
    /\ files \in InputInputFiles
    /\ Len(files.over15.rows) + Len(files.over05_1h.rows) <= MaxInputRows
    /\ results = PlainResults
    /\ web = FreeWeb
    /\ listed = NotListed
    /\ slugged = <<>>
    /\ Start

\* ------------------------------------------------------------- main

\* line 58 raises IndexError on an existing file without a first line
ReadCrash ==
    /\ pc = "start"
    /\ ReaderCrashes(files.over15) \/ ReaderCrashes(files.over05_1h)
    /\ pc' = "crashed"
    /\ UNCHANGED <<web, listed, slugged, files, results, tasks, i, home, away, page, anchors, hrefs, k,
                   captures, output, cur>>

\* lines 205-213
ReadInputs ==
    /\ pc = "start"
    /\ ~ReaderCrashes(files.over15)
    /\ ~ReaderCrashes(files.over05_1h)
    /\ tasks' = BuildTasks(_read_input_csv(files.over15),
                           _read_input_csv(files.over05_1h))
    /\ pc' = IF tasks' = <<>> THEN "done" ELSE "loop"
    /\ UNCHANGED <<web, listed, slugged, files, results, i, home, away, page, anchors, hrefs, k,
                   captures, output, cur>>

\* lines 220-221
BeginTask ==
    /\ pc = "loop"
    /\ i <= Len(tasks)
    /\ home' = _split_match(tasks[i].match)[1]
    /\ away' = _split_match(tasks[i].match)[2]
    /\ anchors' = <<>>
    /\ hrefs' = NewList(hrefs)
    /\ k' = 1
    /\ cur' = NoCur
    /\ pc' = "search"
    /\ UNCHANGED <<web, listed, slugged, files, results, tasks, i, page, captures, output>>

FinishFirstTask(t, caps, c) ==
    /\ tasks' = [tasks EXCEPT ![1] = t]
    /\ captures' = caps
    /\ cur' = [c EXCEPT !.done = TRUE]
    /\ i' = i + 1
    /\ pc' = "loop"

\* The end of one iteration of the loop body: the task's final fields, the
\* screenshot requested (if any), and the step to the next task.
Finish(t, caps, c) ==
    /\ tasks' = [tasks EXCEPT ![i] = t]
    /\ captures' = caps
    /\ cur' = [c EXCEPT !.done = TRUE]
    /\ i' = i + 1
    /\ pc' = "loop"

\* line 149 returns; lines 150-153 swallow their own exceptions
SearchLoaded ==
    /\ pc = "search"
    /\ page' = SearchUrl(home, away)
    /\ cur' = [cur EXCEPT !.navs = Append(@, SearchUrl(home, away))]
    /\ \E sr \in PagesAt(SearchUrl(home, away)) : anchors' = sr
    /\ pc' = "extract"
    /\ UNCHANGED <<web, listed, slugged, files, results, tasks, i, home, away, hrefs, k, captures, output>>

\* line 149 raises PWTimeoutError: lines 236-242
SearchTimeout ==
    /\ pc = "search"
    /\ SearchRaises("timeout", SearchUrl(home, away))
    /\ page' = SearchUrl(home, away)
    /\ \E shot \in ShotOutcomes :
          Finish(OnTimeout(tasks[i]),
                 Screenshot(captures, TagTimeout, i, tasks[i]),
                 [cur EXCEPT !.navs = Append(@, SearchUrl(home, away)),
                             !.fault = "timeout", !.shot = shot])
    /\ UNCHANGED <<web, listed, slugged, files, results, home, away, anchors, hrefs, k, output>>

\* line 149 raises another exception: lines 243-249
SearchError ==
    /\ pc = "search"
    /\ SearchRaises("error", SearchUrl(home, away))
    /\ page' = SearchUrl(home, away)
    /\ \E shot \in ShotOutcomes :
          Finish(OnError(tasks[i]),
                 Screenshot(captures, TagError, i, tasks[i]),
                 [cur EXCEPT !.navs = Append(@, SearchUrl(home, away)),
                             !.fault = "error", !.shot = shot])
    /\ UNCHANGED <<web, listed, slugged, files, results, home, away, anchors, hrefs, k, output>>

\* line 157 raises (the page or the browser is gone): lines 243-249
ExtractError ==
    /\ pc = "extract"
    /\ LocatorRaises(page)
    /\ \E shot \in ShotOutcomes :
          Finish(OnError(tasks[i]),
                 Screenshot(captures, TagError, i, tasks[i]),
                 [cur EXCEPT !.fault = "error", !.shot = shot])
    /\ UNCHANGED <<web, listed, slugged, files, results, home, away, page, anchors, hrefs, k, output>>

\* lines 157-177 with at least one candidate
ExtractCandidates ==
    /\ pc = "extract"
    /\ \E failed \in FailedAt(page, Len(Locate(anchors))) :
          /\ hrefs' = CollectHrefs(Locate(anchors), failed, 1, NewList(hrefs))
          /\ cur' = [cur EXCEPT !.swallowed = (failed # {})]
    /\ hrefs' # <<>>
    /\ k' = 1
    /\ pc' = "validate"
    /\ UNCHANGED <<web, listed, slugged, files, results, tasks, i, home, away, page, anchors, captures, output>>

\* lines 157-177 without any candidate: return None, then lines 228-235
ExtractNothing ==
    /\ pc = "extract"
    /\ \E failed \in FailedAt(page, Len(Locate(anchors))), shot \in ShotOutcomes :
          /\ hrefs' = CollectHrefs(Locate(anchors), failed, 1, NewList(hrefs))
          /\ hrefs' = <<>>
          /\ Finish(OnMiss(tasks[i]),
                    Screenshot(captures, TagMiss, i, tasks[i]),
                    [cur EXCEPT !.swallowed = (failed # {}), !.shot = shot])
    /\ UNCHANGED <<web, listed, slugged, files, results, home, away, page, anchors, k, output>>

\* after a candidate that did not validate (lines 192, 195): the next one
NextCandidateGiveUp(n) == MaxAttempts + 1
NextCandidateSkipOne(n) == n + 2
NextCandidate(n) == n + 1

\* lines 185-190 raise for candidate k: except Exception: continue
ValidateException ==
    /\ pc = "validate"
    /\ k <= Len(Attempts(hrefs))
    /\ BodyRaises(hrefs[k])
    /\ page' = hrefs[k]
    /\ cur' = [cur EXCEPT !.navs = Append(@, hrefs[k]),
                          !.swallowed = TRUE,
                          !.rejected = @ \cup {k}]
    /\ k' = NextCandidate(k)
    /\ UNCHANGED <<web, listed, slugged, files, results, tasks, i, pc, home, away, anchors, hrefs,
                   captures, output>>

\* lines 185-192 for candidate k, whose text fails the test of line 192
ValidateReject ==
    /\ pc = "validate"
    /\ k <= Len(Attempts(hrefs))
    /\ \E txt \in BodiesAt(hrefs[k]) :
          ~Validates(_slug(home), _slug(away), _slug(txt))
    /\ page' = hrefs[k]
    /\ cur' = [cur EXCEPT !.navs = Append(@, hrefs[k]),
                          !.rejected = @ \cup {k}]
    /\ k' = NextCandidate(k)
    /\ UNCHANGED <<web, listed, slugged, files, results, tasks, i, pc, home, away, anchors, hrefs,
                   captures, output>>

\* lines 185-193 for candidate k, whose text passes: return cand, then
\* lines 224-227
ValidateAccept ==
    /\ pc = "validate"
    /\ k <= Len(Attempts(hrefs))
    /\ page' = hrefs[k]
    /\ \E txt \in BodiesAt(hrefs[k]) :
          /\ Validates(_slug(home), _slug(away), _slug(txt))
          /\ Finish(OnOk(tasks[i], hrefs[k]), captures,
                    [cur EXCEPT !.navs = Append(@, hrefs[k]),
                                !.body = txt])
    /\ UNCHANGED <<web, listed, slugged, files, results, home, away, anchors, hrefs, k, output>>

\* line 197: return None, then lines 228-235
ValidateExhausted ==
    /\ pc = "validate"
    /\ k > Len(Attempts(hrefs))
    /\ \E shot \in ShotOutcomes :
          Finish(OnMiss(tasks[i]),
                 Screenshot(captures, TagMiss, i, tasks[i]),
                 [cur EXCEPT !.shot = shot])
    /\ UNCHANGED <<web, listed, slugged, files, results, home, away, page, anchors, hrefs, k, output>>

\* the loop of line 220 is over: lines 251-252 close the context and the
\* browser, and with them the page and what was read from it
EndLoop ==
    /\ pc = "loop"
    /\ i > Len(tasks)
    /\ page' = <<"closed">>
    /\ anchors' = <<>>
    /\ hrefs' = <<>>
    /\ k' = 1
    /\ cur' = NoCur
    /\ pc' = "write"
    /\ UNCHANGED <<web, listed, slugged, files, results, tasks, i, home, away, captures, output>>

\* lines 255-262
WriteOutput ==
    /\ pc = "write"
    /\ output' = <<HeaderRow>> \o [n \in 1..Len(tasks) |-> OutputRow(tasks[n])]
    /\ pc' = "done"
    /\ UNCHANGED <<web, listed, slugged, files, results, tasks, i, home, away, page, anchors, hrefs, k,
                   captures, cur>>

Next ==
    \/ ReadCrash
    \/ ReadInputs
    \/ BeginTask
    \/ SearchLoaded
    \/ SearchTimeout
    \/ SearchError
    \/ ExtractError
    \/ ExtractCandidates
    \/ ExtractNothing
    \/ ValidateException
    \/ ValidateReject
    \/ ValidateAccept
    \/ ValidateExhausted
    \/ EndLoop
    \/ WriteOutput

Spec == Init /\ [][Next]_vars

\* ---------------------------------------------- scripts/read_inputs.py

Filtro == <<"f", "i", "l", "t", "r", "o">>

\* read_inputs.py lines 14-29: the match texts one file yields
RECURSIVE extract_matches(_)
extract_matches(rows) ==
    IF rows = <<>> THEN <<>>
    ELSE LET row == Head(rows)
             match == IF Len(row) < 2 THEN <<>> ELSE Strip(row[2])
             keep == /\ Len(row) >= 2
                     /\ match # <<>>
                     /\ ~MatchAt(Lower(match), Filtro, 1)
                     /\ Contains(match, Sep)
         IN (IF keep THEN <<match>> ELSE <<>>) \o extract_matches(Tail(rows))

\* read_inputs.py line 11 raises FileNotFoundError
ListCrash ==
    /\ pc = "start"
    /\ ~files.over15.exists \/ ~files.over05_1h.exists
    /\ pc' = "crashed"
    /\ UNCHANGED <<web, listed, slugged, files, results, tasks, i, home, away,
                   page, anchors, hrefs, k, captures, output, cur>>

\* read_inputs.py lines 34-36
ListInputs ==
    /\ pc = "start"
    /\ files.over15.exists
    /\ files.over05_1h.exists
    /\ listed' = [ran |-> TRUE,
                  over15 |-> extract_matches(files.over15.rows),
                  over05_1h |-> extract_matches(files.over05_1h.rows)]
    /\ pc' = "listed"
    /\ UNCHANGED <<web, slugged, files, results, tasks, i, home, away,
                   page, anchors, hrefs, k, captures, output, cur>>

\* Either script is run on the input files
NextInput ==
    \/ Next
    \/ ListCrash
    \/ ListInputs

SpecInput == InitInput /\ [][NextInput]_vars

SpecDeep == InitDeep /\ [][Next]_vars

\* Every navigation carries a timeout (lines 149, 185) and every loop runs
\* over a finite list, so main does not stay forever at any of its steps.
\* Each conjunct names, for one step of main, outcomes of which one is
\* possible whenever main is at that step.
Fairness ==
    /\ WF_vars(ReadCrash \/ ReadInputs)
    /\ WF_vars(BeginTask \/ EndLoop)
    /\ WF_vars(SearchLoaded \/ SearchTimeout \/ SearchError)
    /\ WF_vars(ExtractError)
    /\ WF_vars(ValidateException \/ ValidateExhausted)
    /\ WF_vars(WriteOutput)

\* The long search page, on which only the href of the second anchor may
\* fail to be read
InitFair ==
    /\ files \in DeepInputFiles
    /\ Len(files.over15.rows) + Len(files.over05_1h.rows) <= MaxDeepRows
    /\ results = DeepResults
    /\ web = [FreeWeb EXCEPT !.flaky = {2}]
    /\ listed = NotListed
    /\ slugged = <<>>
    /\ Start

SpecFair == InitFair /\ [][Next]_vars /\ Fairness

\* ------------------------------------------- the site held fixed

RowBA == << <<"2">>, <<"b", " ", "v", "s", " ", "a">>, <<"L">> >>

FixedRowPool == {RowAB, RowBA}

FixedFilePool ==
    {NoFile} \cup {[exists |-> TRUE, rows |-> r] :
                      r \in BoundedSeq(FixedRowPool, MaxFixedRows)}

FixedInputFiles ==
    {[over15 |-> f, over05_1h |-> g] : f \in FixedFilePool, g \in FixedFilePool}

\* The search URL of a row
SearchUrlOf(match) == SearchUrl(_split_match(match)[1], _split_match(match)[2])

FixedSearchUrls == {SearchUrlOf(row[2]) : row \in FixedRowPool}

FixedPage == << Anchor(HrefM1, TextNone), Anchor(HrefM2, TextNone) >>

\* What one search URL answers every time it is navigated to: the
\* navigation times out or fails, the page loads and the locator raises, or
\* the page loads with anchors of which those in `failed` cannot be read.
SearchAnswers ==
    {[kind |-> "timeout", anchors |-> <<>>, failed |-> {}],
     [kind |-> "error", anchors |-> <<>>, failed |-> {}],
     [kind |-> "gone", anchors |-> <<>>, failed |-> {}],
     [kind |-> "page", anchors |-> FixedPage, failed |-> {}],
     [kind |-> "page", anchors |-> FixedPage, failed |-> {1, 2}]}

FixedCandUrls == {ODDSPORTAL_BASE \o HrefM1, ODDSPORTAL_BASE \o HrefM2}

\* What one candidate URL answers every time it is navigated to
BodyAnswers ==
    {[kind |-> "raise", text |-> <<>>],
     [kind |-> "text", text |-> TextAB],
     [kind |-> "text", text |-> TextNone]}

InitFixed ==
    /\ files \in FixedInputFiles
    /\ Len(files.over15.rows) + Len(files.over05_1h.rows) <= MaxFixedRows
    /\ results = {}
    /\ web \in [fixed : {TRUE},
                 search : [FixedSearchUrls -> SearchAnswers],
                 body : [FixedCandUrls -> BodyAnswers],
                 flaky : {{}}]
    /\ listed = NotListed
    /\ slugged = <<>>
    /\ Start

SpecFixed == InitFixed /\ [][Next]_vars

\* ------------------------------------------------------- _slug alone

SlugAlphabet == {"a", "B", " ", "-", "&"}

InitSlug ==
    /\ slugged \in {<<s>> : s \in BoundedSeq(SlugAlphabet, MaxTextLen)}
    /\ files = [over15 |-> NoFile, over05_1h |-> NoFile]
    /\ results = {}
    /\ web = FreeWeb
    /\ listed = NotListed
    /\ Start

\* _slug applied to the text, then to its own result
ApplySlug ==
    /\ Len(slugged) \in 1..2
    /\ slugged' = Append(slugged, _slug(slugged[Len(slugged)]))
    /\ UNCHANGED <<web, listed, files, results, tasks, i, pc, home, away,
                   page, anchors, hrefs, k, captures, output, cur>>

NextSlug == ApplySlug

SpecSlug == InitSlug /\ [][NextSlug]_vars

\* ------------------------------------------------------------ claims

\* The task that has just been given its final status, while cur.done
Last == tasks[i - 1]

\* The URLs of candidate pages handed to page.goto for the current task
CandNavs == IF cur.navs = <<>> THEN <<>> ELSE Tail(cur.navs)

\* The screenshots requested by task n
CapturesOf(n) == {c \in 1..Len(captures) : captures[c].task = n}

\* C1: after the main loop, every task has a non-empty oddsportal_link if
\* and only if its status is "ok".
C1_LinkIffOk ==
    pc \in {"write", "done"} =>
        \A n \in 1..Len(tasks) :
            (tasks[n].oddsportal_link # <<>>) <=> (tasks[n].status = "ok")

C1_Witness ==
    /\ pc = "done"
    /\ \E n, m \in 1..Len(tasks) :
          /\ tasks[n].status = "ok"
          /\ tasks[n].oddsportal_link # <<>>
          /\ tasks[m].status = "link-miss"

\* C2: a task that ends "ok" carries the URL of an anchor of its own search
\* page, that URL was the page last navigated to, and the normalized body
\* text read there contains both normalized team names.
C2_NoFabricatedLink ==
    (cur.done /\ Last.status = "ok") =>
        /\ \E n \in 1..Len(anchors) :
              ODDSPORTAL_BASE \o anchors[n].href = Last.oddsportal_link
        /\ CandNavs # <<>>
        /\ CandNavs[Len(CandNavs)] = Last.oddsportal_link
        /\ page = Last.oddsportal_link
        /\ _slug(home) # <<>>
        /\ _slug(away) # <<>>
        /\ Contains(_slug(cur.body), _slug(home))
        /\ Contains(_slug(cur.body), _slug(away))

C2_Witness ==
    /\ cur.done
    /\ Last.status = "ok"
    /\ cur.rejected # {}
    /\ cur.body = TextAB

\* C3 as stated: once the first candidate fails validation the task ends
\* "link-miss" and no second candidate page is navigated to.
C3_NoSecondCandidate ==
    (cur.done /\ 1 \in cur.rejected) =>
        /\ Last.status = "link-miss"
        /\ Len(CandNavs) = 1

\* C3 as amended: after a candidate fails validation the next of the first 8
\* candidates is tried; the task resolves to the first candidate that
\* validates and ends "link-miss" only when each of the first 8 failed.
C3_TriesNextCandidate ==
    (cur.done /\ cur.rejected # {}) =>
        LET tried == Cardinality(cur.rejected)
            limit == IF Len(hrefs) < 8 THEN Len(hrefs) ELSE 8
        IN /\ cur.rejected = 1..tried
           /\ Last.status = "link-miss" =>
                 /\ tried = limit
                 /\ CandNavs = SubSeq(hrefs, 1, limit)
           /\ Last.status = "ok" =>
                 /\ tried < limit
                 /\ Last.oddsportal_link = hrefs[tried + 1]
                 /\ CandNavs = SubSeq(hrefs, 1, tried + 1)
           /\ Last.status \in {"ok", "link-miss"}

C3_Witness ==
    /\ cur.done
    /\ Last.status = "ok"
    /\ Cardinality(cur.rejected) = 7
    /\ Len(hrefs) > 8

\* The filter of lines 157-168 on an href, stated on its tokens
PassesLinkFilter(href) ==
    /\ href # <<>>
    /\ href[1] = "/"
    /\ ~(Len(href) >= 3 /\ href[2] = "search" /\ href[3] = "/")
    /\ \E q \in 1..Len(href) :
          q + 2 <= Len(href) /\ href[q] = "/" /\ href[q + 1] = "football"
             /\ href[q + 2] = "/"
    /\ Cardinality({q \in 1..Len(href) : href[q] = "/"}) >= 4

\* The hard gate of the claim on a listing text
PassesGate(text) ==
    /\ Contains(_slug(text), _slug(home))
    /\ Contains(_slug(text), _slug(away))

\* C4 as stated: a candidate page is navigated to only when an anchor of
\* that URL shows both team names in its listing text.
C4_GateBeforeValidation ==
    \A v \in 1..Len(CandNavs) :
        \E n \in 1..Len(anchors) :
            /\ ODDSPORTAL_BASE \o anchors[n].href = CandNavs[v]
            /\ PassesGate(anchors[n].text)

\* C4 as amended: a candidate page is navigated to only for an href that
\* passes the link filter (starts with "/", not under "/search/", contains
\* "/football/", at least 4 slashes), whatever its listing text; without any
\* such href on the page the task ends "link-miss" with no candidate page
\* navigated to, and with one (and no exception) a candidate page is.
C4_FilterBeforeValidation ==
    /\ \A v \in 1..Len(CandNavs) :
          \E n \in 1..Len(anchors) :
              /\ ODDSPORTAL_BASE \o anchors[n].href = CandNavs[v]
              /\ PassesLinkFilter(anchors[n].href)
    /\ (cur.done /\ cur.fault = "none") =>
          /\ (\A n \in 1..Len(anchors) : ~PassesLinkFilter(anchors[n].href))
                => (CandNavs = <<>> /\ Last.status = "link-miss")
          /\ (~cur.swallowed
                /\ \E n \in 1..Len(anchors) : PassesLinkFilter(anchors[n].href))
                => CandNavs # <<>>

C4_Witness ==
    /\ cur.done
    /\ \E v \in 1..Len(CandNavs) :
          \A n \in 1..Len(anchors) :
              ODDSPORTAL_BASE \o anchors[n].href = CandNavs[v]
                 => ~PassesGate(anchors[n].text)
    /\ \E n \in 1..Len(anchors) : Head(anchors[n].href) = "/"
                                     /\ ~PassesLinkFilter(anchors[n].href)

\* C5 as stated: a task whose search navigation timed out has the final
\* status "timeout".
C5_TimeoutStatus ==
    (cur.done /\ cur.fault = "timeout") => Last.status = "timeout"

\* C5 as amended: a task whose search navigation timed out has the final
\* status "link-miss" and an empty link, its screenshot is tagged "timeout",
\* and no candidate was extracted or navigated to.
C5_TimeoutIsLinkMiss ==
    (cur.done /\ cur.fault = "timeout") =>
        /\ Last.status = "link-miss"
        /\ Last.oddsportal_link = <<>>
        /\ captures[Len(captures)].tag = "timeout"
        /\ captures[Len(captures)].task = i - 1
        /\ cur.navs = <<SearchUrl(home, away)>>
        /\ anchors = <<>>
        /\ hrefs = <<>>

C5_Witness ==
    /\ cur.done
    /\ cur.fault = "timeout"
    /\ Last.status = "link-miss"

\* C6 as stated: a task that met a non-timeout exception during search,
\* extraction or validation has the final status "error".
C6_ErrorStatus ==
    (cur.done /\ (cur.fault = "error" \/ cur.swallowed)) =>
        Last.status = "error"

\* C6 as amended: an exception that leaves the search or the listing of the
\* anchors gives the final status "link-miss" with a screenshot tagged
\* "error"; an exception on one anchor or one candidate page is swallowed
\* and the task ends "ok" or "link-miss" (tagged "search-miss").
C6_ErrorIsLinkMiss ==
    /\ (cur.done /\ cur.fault = "error") =>
          /\ Last.status = "link-miss"
          /\ Last.oddsportal_link = <<>>
          /\ captures[Len(captures)].tag = "error"
          /\ captures[Len(captures)].task = i - 1
    /\ (cur.done /\ cur.fault = "none" /\ cur.swallowed) =>
          \/ Last.status = "ok" /\ CapturesOf(i - 1) = {}
          \/ /\ Last.status = "link-miss"
             /\ captures[Len(captures)].tag = "search-miss"
             /\ captures[Len(captures)].task = i - 1

C6_Witness ==
    /\ cur.done
    /\ cur.fault = "error"
    /\ anchors # <<>>

\* C7: an exception while resolving one task never aborts the run: the task
\* gets a final status and the loop goes on, so that exactly the tasks before
\* the loop position have a final status, and after the loop no task is
\* still "pending".
C7_FaultIsolation ==
    /\ pc = "crashed" => tasks = <<>>
    /\ (cur.done /\ cur.fault # "none") =>
          /\ Last.status # "pending"
          /\ pc \in {"loop", "write", "done"}
    /\ pc \in {"loop", "search", "extract", "validate"} =>
          /\ \A n \in 1..Len(tasks) :
                (n < i) <=> (tasks[n].status # "pending")
    /\ pc \in {"write", "done"} =>
          /\ i = Len(tasks) + 1 \/ tasks = <<>>
          /\ \A n \in 1..Len(tasks) : tasks[n].status \in {"ok", "link-miss"}

C7_Witness ==
    /\ pc = "done"
    /\ Len(tasks) = 2
    /\ \E c \in CapturesOf(1) : captures[c].tag \in {"timeout", "error"}
    /\ tasks[2].status = "ok"

\* The rows _read_input_csv accepts from the two files
Accepted15 == _read_input_csv(files.over15)
Accepted05 == _read_input_csv(files.over05_1h)

\* C8: the output holds, after its header, one row per accepted row of
\* Over15.csv in file order and then one per accepted row of Over05_1h.csv
\* in file order, whatever the outcome of each.
C8_OneRowPerTaskInOrder ==
    /\ (pc = "done" /\ output = <<>>) => (Accepted15 = <<>> /\ Accepted05 = <<>>)
    /\ (pc = "done" /\ output # <<>>) =>
          /\ Len(output) = 1 + Len(Accepted15) + Len(Accepted05)
          /\ output[1] = HeaderRow
          /\ \A n \in 1..Len(Accepted15) :
                /\ output[1 + n][1] = "over15"
                /\ output[1 + n][2] = Accepted15[n].idx
                /\ output[1 + n][3] = Accepted15[n].match
                /\ output[1 + n][4] = Accepted15[n].league
          /\ \A n \in 1..Len(Accepted05) :
                LET row == output[1 + Len(Accepted15) + n]
                IN /\ row[1] = "over05_1h"
                   /\ row[2] = Accepted05[n].idx
                   /\ row[3] = Accepted05[n].match
                   /\ row[4] = Accepted05[n].league

C8_Witness ==
    /\ pc = "done"
    /\ Len(output) = 3
    /\ output[2][1] = "over15"
    /\ output[3][1] = "over05_1h"
    /\ output[2][3] # output[3][3]
    /\ output[2][6] = "link-miss"
    /\ output[3][6] = "ok"

\* C9 as stated, the tag: every screenshot is tagged with the final status
\* of the task that requested it.
C9_CaptureTaggedWithStatus ==
    \A c \in 1..Len(captures) :
        captures[c].task < i => captures[c].tag = tasks[captures[c].task].status

\* C9 as amended: a task that ends other than "ok" requests exactly one
\* screenshot, an "ok" task none; the screenshot carries the task's bucket
\* and idx and a failure tag (search-miss, timeout, error) naming how the
\* task ended, while the status is "link-miss"; a screenshot call that
\* raises leaves the status and the loop as they are.
C9_OneCapturePerFailure ==
    /\ \A n \in 1..Len(tasks) :
          Cardinality(CapturesOf(n)) =
              IF n < i /\ tasks[n].status # "ok" THEN 1 ELSE 0
    /\ \A c \in 1..Len(captures) :
          LET t == tasks[captures[c].task]
          IN /\ captures[c].bucket = t.bucket
             /\ captures[c].idx = t.idx
             /\ captures[c].tag \in {"search-miss", "timeout", "error"}
             /\ t.status = "link-miss"
    /\ (cur.done /\ Last.status # "ok") =>
          /\ captures[Len(captures)].task = i - 1
          /\ captures[Len(captures)].tag =
                CASE cur.fault = "timeout" -> "timeout"
                  [] cur.fault = "error" -> "error"
                  [] OTHER -> "search-miss"
          /\ cur.shot \in {"saved", "failed"}
          /\ pc \in {"loop", "write", "done"}
    /\ (cur.done /\ Last.status = "ok") => cur.shot = "none"

C9_Witness ==
    /\ pc = "loop"
    /\ Len(tasks) = 2
    /\ i = 3
    /\ cur.done
    /\ cur.shot = "failed"
    /\ Cardinality(CapturesOf(1)) = 1
    /\ Cardinality(CapturesOf(2)) = 1
    /\ captures[1].tag # captures[2].tag

\* C10 as stated: a task that reaches the search has exactly one " vs " in
\* its match text and non-empty home and away names.
C10_ExactlyOneSeparator ==
    pc = "search" =>
        /\ Count(tasks[i].match, Sep) = 1
        /\ home # <<>>
        /\ away # <<>>

\* C10 as amended: a task that reaches the search has a non-zero idx and a
\* non-empty, trimmed match text; the number of separators is not checked,
\* and a row with none, several, or an empty side is searched all the same.
C10_NonEmptyMatchText ==
    \A n \in 1..Len(tasks) :
        /\ tasks[n].match # <<>>
        /\ tasks[n].match[1] \notin Whitespace
        /\ tasks[n].match[Len(tasks[n].match)] \notin Whitespace
        /\ tasks[n].idx # 0

C10_Witness ==
    /\ pc = "search"
    /\ Count(tasks[i].match, Sep) = 2
    /\ Len(tasks) = 1
    /\ \E r \in 1..Len(files.over15.rows) : files.over15.rows[r] = RowBlank

\* C11 as stated: every task has a strictly positive index (a row whose first
\* column is non-numeric, zero or negative yields no task).
C11_PositiveIndex ==
    \A n \in 1..Len(tasks) : tasks[n].idx > 0

\* A results listing under /football/
IsResultsListing(href) ==
    /\ \E q \in 1..Len(href) : href[q] = "results"
    /\ \E q \in 1..Len(href) :
          q + 2 <= Len(href) /\ href[q] = "/" /\ href[q + 1] = "football"
             /\ href[q + 2] = "/"

\* C12 as stated: every candidate comes from an anchor whose href passes the
\* link filter and is not a results listing.
C12_NoResultsCandidate ==
    \A n \in 1..Len(hrefs) :
        \E a \in 1..Len(anchors) :
            /\ ODDSPORTAL_BASE \o anchors[a].href = hrefs[n]
            /\ PassesLinkFilter(anchors[a].href)
            /\ ~IsResultsListing(anchors[a].href)

\* C12 as amended: every candidate comes from an anchor whose href starts
\* with "/", is not under "/search/", contains "/football/" and has at least
\* 4 slashes; a results listing that meets these conditions is a candidate
\* like any other.
C12_CandidateFilter ==
    /\ \A n \in 1..Len(hrefs) :
          \E a \in 1..Len(anchors) :
              /\ ODDSPORTAL_BASE \o anchors[a].href = hrefs[n]
              /\ PassesLinkFilter(anchors[a].href)
    /\ (pc = "validate" /\ ~cur.swallowed) =>
          \A a \in 1..Len(anchors) :
              (IsResultsListing(anchors[a].href)
                  /\ PassesLinkFilter(anchors[a].href))
                 => InSeq(ODDSPORTAL_BASE \o anchors[a].href, hrefs)

C12_Witness ==
    /\ pc = "validate"
    /\ hrefs = <<ODDSPORTAL_BASE \o HrefResults, ODDSPORTAL_BASE \o HrefM2>>

\* The absolute URL an href stands for
Resolved(href) ==
    IF href # <<>> /\ Head(href) = "/" THEN ODDSPORTAL_BASE \o href ELSE href

\* The first anchor of the page, in source order, that stands for url
FirstSeen(url) ==
    LET at == {a \in 1..Len(anchors) : Resolved(anchors[a].href) = url}
    IN CHOOSE a \in at : \A b \in at : a <= b

\* The first anchor of the page with a relative href that stands for url
FirstRelative(url) ==
    LET at == {a \in 1..Len(anchors) :
                  /\ anchors[a].href # <<>>
                  /\ Head(anchors[a].href) = "/"
                  /\ ODDSPORTAL_BASE \o anchors[a].href = url}
    IN CHOOSE a \in at : \A b \in at : a <= b

NoDuplicates(s) == \A n, m \in 1..Len(s) : s[n] = s[m] => n = m

\* C13 as stated: the candidate list has no URL twice and lists the URLs in
\* the order of their first occurrence on the page, an absolute href counting
\* as an occurrence of the URL it spells.
C13_FirstOccurrenceOrder ==
    /\ NoDuplicates(hrefs)
    /\ ~cur.swallowed =>
          \A n, m \in 1..Len(hrefs) :
              n < m => FirstSeen(hrefs[n]) < FirstSeen(hrefs[m])

\* C13 as amended: the candidate list has no URL twice, every candidate is
\* the base URL followed by a relative href of the page, and the candidates
\* are in the order of the first relative occurrence; an absolute href is
\* not an occurrence.
C13_UniqueFirstRelative ==
    /\ NoDuplicates(hrefs)
    /\ \A n \in 1..Len(hrefs) :
          \E a \in 1..Len(anchors) :
              /\ anchors[a].href # <<>>
              /\ Head(anchors[a].href) = "/"
              /\ ODDSPORTAL_BASE \o anchors[a].href = hrefs[n]
    /\ ~cur.swallowed =>
          \A n, m \in 1..Len(hrefs) :
              n < m => FirstRelative(hrefs[n]) < FirstRelative(hrefs[m])

C13_Witness ==
    /\ pc = "validate"
    /\ ~cur.swallowed
    /\ anchors[1].href = HrefAbs
    /\ hrefs = <<ODDSPORTAL_BASE \o HrefM2, ODDSPORTAL_BASE \o HrefM1>>

\* C14 as stated: _slug is idempotent, _slug(_slug(s)) = _slug(s).
C14_SlugIdempotent ==
    Len(slugged) = 3 => slugged[3] = slugged[2]

\* A header or noise row: the first column is not an integer and the second
\* holds no " vs "
IsNoiseRow(row) ==
    /\ Len(row) >= 2
    /\ ~ParseInt(row[1]).ok
    /\ ~Contains(row[2], Sep)

\* The rows of a file other than its header and noise rows
WithoutNoise(file) ==
    [file EXCEPT !.rows = SelectSeq(@, LAMBDA row : ~IsNoiseRow(row))]

\* bucket, index and match text of the tasks, in order
Descriptors(ts) ==
    [n \in 1..Len(ts) |-> <<ts[n].bucket, ts[n].idx, ts[n].match>>]

\* C15 as stated: header and noise rows are dropped by both readers and
\* change nothing for the rows around them: the tasks are those of the same
\* files without such rows, no capture belongs to anything but a task, and
\* read_inputs.py lists what it lists without such rows.
C15_NoiseRowsInert ==
    /\ pc \notin {"start", "crashed", "listed"} =>
          /\ Descriptors(tasks) =
                Descriptors(BuildTasks(_read_input_csv(WithoutNoise(files.over15)),
                                       _read_input_csv(WithoutNoise(files.over05_1h))))
          /\ \A c \in 1..Len(captures) : captures[c].task \in 1..Len(tasks)
    /\ listed.ran =>
          /\ listed.over15 = extract_matches(WithoutNoise(files.over15).rows)
          /\ listed.over05_1h = extract_matches(WithoutNoise(files.over05_1h).rows)

\* The status and link that the answers of the site determine for a match
\* text, whatever was resolved before it
Determined(match) ==
    LET h == _split_match(match)[1]
        a == _split_match(match)[2]
        ans == web.search[SearchUrl(h, a)]
        hs == IF ans.kind = "page"
              THEN Attempts(CollectHrefs(Locate(ans.anchors), ans.failed, 1, <<>>))
              ELSE <<>>
        good == {n \in 1..Len(hs) :
                    /\ web.body[hs[n]].kind = "text"
                    /\ Validates(_slug(h), _slug(a), _slug(web.body[hs[n]].text))}
    IN IF good = {} THEN <<"link-miss", <<>>>>
       ELSE <<"ok", hs[CHOOSE n \in good : \A m \in good : n <= m]>>

\* C16: with the answer of every URL held fixed, the status and link of a
\* task are a function of its match text and of those answers alone: the
\* same in every run, and whatever tasks used the shared page before it.
C16_OutcomeDetermined ==
    web.fixed =>
        \A n \in 1..Len(tasks) :
            tasks[n].status # "pending" =>
                <<tasks[n].status, tasks[n].oddsportal_link>>
                    = Determined(tasks[n].match)

C16_Witness ==
    /\ web.fixed
    /\ cur.done
    /\ i = 3
    /\ tasks[1].match # tasks[2].match
    /\ tasks[1].status = "ok"
    /\ tasks[2].status = "link-miss"
    /\ web.search[SearchUrlOf(tasks[2].match)].kind = "page"

\* The work done so far for the current task is within its budget: the
\* first navigation, and only the first, is the search; the candidate
\* navigations are the candidates in page order, each once, at most
\* MaxAttempts of them.
WithinBudget ==
    /\ pc \in {"extract", "validate"} => cur.navs # <<>>
    /\ cur.done => cur.navs # <<>>
    /\ cur.navs # <<>> => cur.navs[1] = SearchUrl(home, away)
    /\ Len(CandNavs) <= MaxAttempts
    /\ Len(CandNavs) <= Len(hrefs)
    /\ \A v \in 1..Len(CandNavs) : CandNavs[v] = hrefs[v]

\* The run is over: every task has its final status and the output holds
\* the header and one row per task.
RunComplete ==
    /\ pc = "done"
    /\ \A n \in 1..Len(tasks) : tasks[n].status # "pending"
    /\ Len(output) = Len(tasks) + 1

\* C17: each task causes exactly one search navigation and at most 8
\* candidate navigations, to the first candidates in page order; and once
\* there is a task list, every task reaches a final status, the output is
\* written and the run ends.
C17_BoundedWorkAndTermination ==
    /\ []WithinBudget
    /\ (tasks # <<>>) ~> RunComplete

C17_Witness ==
    /\ pc = "loop"
    /\ cur.done
    /\ Len(cur.navs) = MaxAttempts + 1
    /\ Len(hrefs) = MaxAttempts + 1
    /\ Last.status = "link-miss"

\* main is inside the loop body, working on task i
Active == pc \in {"search", "extract", "validate"}

\* C18: the tasks are processed strictly one after the other. A task's
\* fields change only while main works on that task, once, from "pending"
\* to its final status, and the loop then moves to the next task; work on a
\* task starts only when all tasks before it are final and all from it on
\* are pending; the shared page is navigated and a screenshot is requested
\* only for the task in progress.
C18_StrictlySequential ==
    [][ /\ \A n \in 1..Len(tasks) :
              tasks'[n] # tasks[n] =>
                  /\ Active
                  /\ n = i
                  /\ tasks[n].status = "pending"
                  /\ tasks'[n].status # "pending"
                  /\ i' = n + 1
        /\ (Active' /\ ~Active) =>
              /\ i \in 1..Len(tasks)
              /\ \A n \in 1..Len(tasks) :
                    (n < i) <=> (tasks[n].status # "pending")
        /\ (page' # page) => (Active \/ (pc = "loop" /\ i > Len(tasks)))
        /\ (captures' # captures) =>
              /\ Active
              /\ captures'[Len(captures')].task = i
      ]_vars

C18_Witness ==
    /\ pc = "validate"
    /\ i = 2
    /\ Len(tasks) = 2
    /\ tasks[1].status = "ok"
    /\ tasks[2].status = "pending"
    /\ CandNavs # <<>>

\* The page of candidate n can be read and shows both team names
PagePasses(n) ==
    /\ web.body[hrefs[n]].kind = "text"
    /\ Validates(_slug(home), _slug(away), _slug(web.body[hrefs[n]].text))

\* C19: with the answer of every URL held fixed, a task that ends "ok"
\* carries the earliest, in page order, of the first 8 candidates whose page
\* passes the check, every candidate before it was navigated to and none
\* after it; a candidate whose page cannot be read is only skipped, so a
\* task with candidates ends "link-miss" only when none of the first 8
\* passes and each of them was navigated to.
C19_EarliestValidating ==
    (web.fixed /\ cur.done /\ hrefs # <<>>) =>
        LET passing == {n \in 1..Len(Attempts(hrefs)) : PagePasses(n)}
        IN /\ Last.status = "ok" =>
                 \E m \in passing :
                     /\ \A n \in passing : m <= n
                     /\ Last.oddsportal_link = hrefs[m]
                     /\ CandNavs = SubSeq(hrefs, 1, m)
           /\ Last.status # "ok" =>
                 /\ passing = {}
                 /\ CandNavs = Attempts(hrefs)

C19_Witness ==
    /\ web.fixed
    /\ cur.done
    /\ Len(hrefs) = 2
    /\ web.body[hrefs[1]].kind = "raise"
    /\ Last.status = "ok"
    /\ Last.oddsportal_link = hrefs[2]

\* C20: a task whose home or away name normalizes to the empty text never
\* ends "ok": whatever the candidate pages show, it ends "link-miss" with an
\* empty link.
C20_EmptyNameNeverResolved ==
    (cur.done /\ (_slug(home) = <<>> \/ _slug(away) = <<>>)) =>
        /\ Last.status = "link-miss"
        /\ Last.oddsportal_link = <<>>

C20_Witness ==
    /\ cur.done
    /\ _slug(home) # <<>>
    /\ _slug(away) = <<>>
    /\ CandNavs # <<>>
    /\ \E txt \in Bodies : Contains(_slug(txt), _slug(home))
    /\ Last.status = "link-miss"

====
